---- MODULE Spec2Model ----
(***************************************************************************)
(* A model of the ED Data Express archiver: the crawl loop of              *)
(* EDDataExpressCrawler (scraper/site_crawler.py) and the pure functions   *)
(* of MediaDownloader (scraper/media_downloader.py).                       *)
(*                                                                         *)
(* URLs, hrefs, content types and file names are strings; the Python       *)
(* string and urllib.parse operations the code calls are written out       *)
(* character by character below.                                           *)
(***************************************************************************)
EXTENDS Integers, Sequences, FiniteSets, TLC

(***************************************************************************)
(* Python calls a function with the values of its arguments.  An operator  *)
(* that reads an argument more than once binds that value first: in        *)
(* {e(x) : x \in {a}} the argument a is evaluated once, and Only takes the  *)
(* one element of the set.                                                 *)
(***************************************************************************)
Only(S) == CHOOSE r \in S : TRUE

(***************************************************************************)
(* Python str operations                                                   *)
(***************************************************************************)
Ch(s, i) == SubSeq(s, i, i)

Chars(s) == {Ch(s, i) : i \in 1..Len(s)}

Contains(s, c) == \E i \in 1..Len(s) : Ch(s, i) = c

\* str.find(c) + 1: the position of the first c in s, 0 when there is none
Find(s, c) ==
    IF Contains(s, c)
    THEN CHOOSE i \in 1..Len(s) : Ch(s, i) = c /\ \A j \in 1..(i - 1) : Ch(s, j) # c
    ELSE 0

\* the position of the first character of s, at or after from, that is in cs;
\* Len(s) + 1 when there is none
FindAny(s, cs, from) ==
    IF \E i \in from..Len(s) : Ch(s, i) \in cs
    THEN CHOOSE i \in from..Len(s) : Ch(s, i) \in cs /\ \A j \in from..(i - 1) : Ch(s, j) \notin cs
    ELSE Len(s) + 1

startswith(s, p) == Len(s) >= Len(p) /\ SubSeq(s, 1, Len(p)) = p

endswith(s, p) == Len(s) >= Len(p) /\ SubSeq(s, Len(s) - Len(p) + 1, Len(s)) = p

UpperCase == "ABCDEFGHIJKLMNOPQRSTUVWXYZ"

LowerCase == "abcdefghijklmnopqrstuvwxyz"

Digits == "0123456789"

lowerChar(c) == IF Contains(UpperCase, c) THEN Ch(LowerCase, Find(UpperCase, c)) ELSE c

RECURSIVE lower(_)
lower(s) ==
    Only({IF x = "" THEN "" ELSE lowerChar(Ch(x, 1)) \o lower(Tail(x)) : x \in {s}})

\* str.replace(old, new) for a one-character old
RECURSIVE replace(_, _, _)
replace(s, old, new) ==
    Only({IF x = "" THEN ""
          ELSE (IF Ch(x, 1) = old THEN new ELSE Ch(x, 1)) \o replace(Tail(x), old, new) :
             x \in {s}})

RECURSIVE lstrip(_, _)
lstrip(s, c) ==
    Only({IF x # "" /\ Ch(x, 1) = c THEN lstrip(Tail(x), c) ELSE x : x \in {s}})

RECURSIVE rstrip(_, _)
rstrip(s, c) ==
    Only({IF x # "" /\ Ch(x, Len(x)) = c THEN rstrip(SubSeq(x, 1, Len(x) - 1), c) ELSE x :
             x \in {s}})

strip(s, c) == rstrip(lstrip(s, c), c)

\* str.split(c): the pieces of s between the occurrences of c, as a sequence
RECURSIVE split(_, _)
split(s, c) ==
    Only({IF ~Contains(x, c) THEN <<x>>
          ELSE <<SubSeq(x, 1, Find(x, c) - 1)>> \o split(SubSeq(x, Find(x, c) + 1, Len(x)), c) :
             x \in {s}})

\* c.join(parts)
RECURSIVE join(_, _)
join(parts, c) ==
    Only({IF p = <<>> THEN ""
          ELSE IF Len(p) = 1 THEN p[1]
          ELSE p[1] \o c \o join(Tail(p), c) :
             p \in {parts}})

(***************************************************************************)
(* urllib.parse, as called by the crawler and the downloader.  Not         *)
(* modelled: the ';params' part of a path, the removal of control          *)
(* characters and the validation of bracketed hosts beyond the bracket     *)
(* balance check; the URLs of the model contain none of these.             *)
(***************************************************************************)
scheme_chars == Chars(LowerCase) \cup Chars(UpperCase) \cup Chars(Digits) \cup {"+", "-", "."}

HasScheme(url) ==
    /\ Find(url, ":") > 1
    /\ Ch(url, 1) \in Chars(LowerCase) \cup Chars(UpperCase)
    /\ \A i \in 1..(Find(url, ":") - 1) : Ch(url, i) \in scheme_chars

\* urlsplit(url, scheme=default), in the order of its steps: the scheme, the
\* netloc, the fragment, the query.  error is TRUE when urlsplit raises
\* ValueError
splitQuery(scheme, netloc, rest, fragment) ==
    Only({[scheme   |-> scheme,
           netloc   |-> n,
           path     |-> IF Contains(r, "?") THEN SubSeq(r, 1, Find(r, "?") - 1) ELSE r,
           query    |-> IF Contains(r, "?") THEN SubSeq(r, Find(r, "?") + 1, Len(r)) ELSE "",
           fragment |-> fragment,
           error    |-> Contains(n, "[") # Contains(n, "]")] :
             n \in {netloc}, r \in {rest}})

splitFragment(scheme, netloc, rest) ==
    Only({IF Contains(r, "#")
          THEN splitQuery(scheme, netloc, SubSeq(r, 1, Find(r, "#") - 1),
                          SubSeq(r, Find(r, "#") + 1, Len(r)))
          ELSE splitQuery(scheme, netloc, r, "") :
             r \in {rest}})

splitNetloc(scheme, rest) ==
    Only({IF startswith(r, "//")
          THEN splitFragment(scheme, SubSeq(r, 3, FindAny(r, {"/", "?", "#"}, 3) - 1),
                             SubSeq(r, FindAny(r, {"/", "?", "#"}, 3), Len(r)))
          ELSE splitFragment(scheme, "", r) :
             r \in {rest}})

urlsplit(url, default) ==
    Only({IF HasScheme(u)
          THEN splitNetloc(lower(SubSeq(u, 1, Find(u, ":") - 1)),
                           SubSeq(u, Find(u, ":") + 1, Len(u)))
          ELSE splitNetloc(default, u) :
             u \in {url}})

urlparse(url) == urlsplit(url, "")

uses_netloc == {"", "ftp", "http", "https", "file", "ws", "wss"}

withNetloc(scheme, netloc, path) ==
    Only({IF n # "" \/ (s # "" /\ s \in uses_netloc /\ ~startswith(p, "//"))
          THEN "//" \o n \o (IF p # "" /\ ~startswith(p, "/") THEN "/" ELSE "") \o p
          ELSE p :
             s \in {scheme}, n \in {netloc}, p \in {path}})

urlunsplit(scheme, netloc, path, query, fragment) ==
    Only({(IF s # "" THEN s \o ":" ELSE "")
          \o withNetloc(s, netloc, path)
          \o (IF q # "" THEN "?" \o q ELSE "")
          \o (IF f # "" THEN "#" \o f ELSE "") :
             s \in {scheme}, q \in {query}, f \in {fragment}})

\* the loop of urljoin over the path segments: '..' pops, '.' is skipped
RECURSIVE resolve(_, _)
resolve(segments, acc) ==
    Only({IF s = <<>> THEN a
          ELSE IF Head(s) = ".."
               THEN resolve(Tail(s), IF a = <<>> THEN a ELSE SubSeq(a, 1, Len(a) - 1))
          ELSE IF Head(s) = "." THEN resolve(Tail(s), a)
          ELSE resolve(Tail(s), Append(a, Head(s))) :
             s \in {segments}, a \in {acc}})

\* segments[1:-1] = filter(None, segments[1:-1])
filterInner(segments) ==
    Only({IF Len(s) <= 2 THEN s
          ELSE <<s[1]>> \o SelectSeq(SubSeq(s, 2, Len(s) - 1), LAMBDA x : x # "")
               \o <<s[Len(s)]>> :
             s \in {segments}})

\* urljoin(base, url); "<ValueError>" stands for the exception urlsplit raises
ValueError == "<ValueError>"

uses_relative == uses_netloc \ {"ws", "wss"}

\* base_parts: the segments of the base path without its last, non-empty one
baseParts(base_path) ==
    Only({IF bp[Len(bp)] # "" THEN SubSeq(bp, 1, Len(bp) - 1) ELSE bp : bp \in {base_path}})

joinResolved(segments, resolved) ==
    join(IF segments[Len(segments)] \in {".", ".."} THEN Append(resolved, "") ELSE resolved, "/")

resolvedPath(segments) ==
    Only({IF p = "" THEN "/" ELSE p :
             p \in {joinResolved(s, resolve(s, <<>>)) : s \in {segments}}})

joinParsed(bparsed, uparsed, url) ==
    Only({IF b.error \/ u.error THEN ValueError
          ELSE IF u.scheme # b.scheme \/ u.scheme \notin uses_relative THEN url
          ELSE IF u.netloc # ""
               THEN urlunsplit(u.scheme, u.netloc, u.path, u.query, u.fragment)
          ELSE IF u.path = ""
               THEN urlunsplit(u.scheme, b.netloc, b.path,
                               IF u.query = "" THEN b.query ELSE u.query, u.fragment)
          ELSE urlunsplit(u.scheme, b.netloc,
                          resolvedPath(IF startswith(u.path, "/") THEN split(u.path, "/")
                                       ELSE filterInner(baseParts(split(b.path, "/"))
                                                        \o split(u.path, "/"))),
                          u.query, u.fragment) :
             b \in {bparsed}, u \in {uparsed}})

urljoin(base, url) ==
    Only({IF b = "" THEN u
          ELSE IF u = "" THEN b
          ELSE joinParsed(urlsplit(b, ""), urlsplit(u, urlsplit(b, "").scheme), u) :
             b \in {base}, u \in {url}})

(***************************************************************************)
(* Python's None and optional values: None is the empty tuple, a value v   *)
(* that may be None is <<v>>.                                              *)
(***************************************************************************)
None == <<>>

Some(v) == <<v>>

(***************************************************************************)
(* The site being crawled.  A document is the sequence of the tags the     *)
(* HTML parser finds in it, in document order; ref is the tag's href or    *)
(* src attribute.  The server does not see a URL's fragment.               *)
(***************************************************************************)
A(href) == [tag |-> "a", ref |-> href, rel |-> ""]

Script(src) == [tag |-> "script", ref |-> src, rel |-> ""]

Link(rel, href) == [tag |-> "link", ref |-> href, rel |-> rel]

base_url == "https://x/"

PageKeys == {"https://x/", "https://x/b", "https://x/c"}

Docs ==
    { <<>>,
      <<A("/b"), A("c")>>,
      <<A("/d")>>,
      <<A("/b#f"), Script("/s.js"), A("/b"), Link("stylesheet", "/t.css"),
        A("https://y/b"), A("/")>>,
      <<A("/d"), A("/d"), A("/d?e=1"), Script("/s.js?v=1"), Link("icon", "/i.ico"),
        A("d.pdf"), Script("//y/s.js")>>,
      <<A("/c"), A("//[")>> }

Sites == [PageKeys -> Docs]

MaxBudget == 3

MaxFaults == 1

(***************************************************************************)
(* State                                                                   *)
(***************************************************************************)
VARIABLES
    visited_urls,   \* EDDataExpressCrawler.visited_urls
    url_queue,      \* EDDataExpressCrawler.url_queue
    page_count,     \* crawl's local page_count
    max_pages,      \* crawl's argument: None or Some(n)
    pc,             \* "loop" in crawl's while loop, "done" returned, "raised" left by an exception
    files,          \* the output directory: file path -> content written
    site,           \* the documents the server holds, by URL without fragment
    faults,         \* the number of failures the environment has produced
    fetched,        \* history: the calls of download_file, in order, with their outcome
    enqueued,       \* history: every URL appended to url_queue, in order, the seed first
    calls,          \* history: crawl's calls of download_file and of time.sleep(1), in order
    arg_url,        \* the URL a pure function is applied to
    arg_content_type, \* the declared content type it is applied to: None or Some(type)
    ret,            \* None, or Some of the function applied and the value it returned
    main_pc,        \* main's position: "start", "crawl", "after_crawl", "after_data",
                    \* "done" returned, "aborted" left by an exception
    args,           \* main's parsed command line
    available,      \* the browsers whose web driver can be set up on this machine
    driver,         \* EDDataExpressCrawler.driver: None until set, then Some(browser)
    tried,          \* history: the setup functions setup_selenium called, with their outcome
    log,            \* history: what main has started, closed and reported, in order
    workers,        \* the threads running crawl's loop on one crawler: for each its
                    \* position, its locals current_url and page_count, and the
                    \* history of the URLs it passed to download_file
    downloaded_urls, \* MediaDownloader.downloaded_urls
    html_files,     \* process_html_directory: the pages of html_files not yet processed
    media_urls,     \* process_html_directory: the URLs of media_urls not yet processed
    media_calls     \* history: the calls of download_media, in order, with their outcome

crawlVars == <<visited_urls, url_queue, page_count, max_pages, pc, files, site, faults,
               fetched, enqueued, calls>>

pureVars == <<arg_url, arg_content_type, ret>>

mainVars == <<main_pc, args, available, driver, tried, log>>

poolVars == <<workers>>

mediaVars == <<downloaded_urls, html_files, media_urls, media_calls>>

vars == <<crawlVars, pureVars, mainVars, poolVars, mediaVars>>

output_dir == "data/raw"

\* EDDataExpressCrawler.__init__: self.domain
domain == urlparse(base_url).netloc

\* what the server holds at url
Served(url) ==
    Only({IF key \in PageKeys THEN site[key] ELSE <<>> :
             key \in {urlunsplit(p.scheme, p.netloc, p.path, p.query, "") :
                         p \in {urlparse(url)}}})

(***************************************************************************)
(* EDDataExpressCrawler.url_to_filename                                    *)
(***************************************************************************)
url_to_filename(url) ==
    Only({IF path = "" \/ path = "/" THEN "index.html"
          ELSE Only({IF ~Contains(stripped, ".") THEN stripped \o ".html" ELSE stripped :
                        stripped \in {replace(strip(path, "/"), "/", "_")}}) :
             path \in {urlparse(url).path}})

\* os.path.join(self.output_dir, file_type, filename), filename never absolute
FilePath(file_type, url) == output_dir \o "/" \o file_type \o "/" \o url_to_filename(url)

(***************************************************************************)
(* EDDataExpressCrawler.extract_links: the anchors, then the scripts, then *)
(* the stylesheet links, each resolved against the page's URL and kept     *)
(* when its host is the crawler's domain.  Raises when urljoin does.       *)
(***************************************************************************)
TagsOf(html_content, kind) ==
    SelectSeq(html_content,
              LAMBDA t : /\ t.tag = kind
                         /\ (kind = "link" => t.rel = "stylesheet"))

RECURSIVE Resolved(_, _, _)
Resolved(url, tags, type) ==
    Only({IF t = <<>> THEN <<>>
          ELSE <<[url |-> urljoin(url, Head(t).ref), type |-> type]>>
               \o Resolved(url, Tail(t), type) :
             t \in {tags}})

Candidates(url, html_content) ==
    Only({Resolved(u, TagsOf(soup, "a"), "html")
          \o Resolved(u, TagsOf(soup, "script"), "js")
          \o Resolved(u, TagsOf(soup, "link"), "css") :
             u \in {url}, soup \in {html_content}})

extract_links_raises(url, html_content) ==
    \E links \in {Candidates(url, html_content)} :
        \E i \in 1..Len(links) : links[i].url = ValueError

\* a mutant of extract_links: no comparison of the host with self.domain
extract_links_unscoped(url, html_content) == Candidates(url, html_content)

extract_links(url, html_content) ==
    SelectSeq(Candidates(url, html_content), LAMBDA l : urlparse(l.url).netloc = domain)

RECURSIVE UrlsOf(_)
UrlsOf(links) ==
    Only({IF l = <<>> THEN <<>> ELSE <<Head(l).url>> \o UrlsOf(Tail(l)) : l \in {links}})

\* mutants of Enqueue: the links are put at the front of the queue; the links
\* are appended without the visited check
EnqueueFront(queue, links, visited) ==
    SelectSeq(UrlsOf(links), LAMBDA u : u \notin visited) \o queue

EnqueueAll(queue, links, visited) == queue \o UrlsOf(links)

\* a mutant of Enqueue: only the links of anchors are appended
EnqueueAnchors(queue, links, visited) ==
    queue \o SelectSeq(UrlsOf(SelectSeq(links, LAMBDA l : l.type = "html")),
                       LAMBDA u : u \notin visited)

\* lines 271-273: each discovered link not in visited_urls is appended to the queue
Enqueue(queue, links, visited) ==
    queue \o SelectSeq(UrlsOf(links), LAMBDA u : u \notin visited)

(***************************************************************************)
(* EDDataExpressCrawler.crawl, one action per way an iteration of its      *)
(* while loop can go.                                                      *)
(***************************************************************************)
\* a mutant of LoopCondition: the budget is compared with <=
LoopConditionInclusive ==
    /\ url_queue # <<>>
    /\ (IF max_pages = None THEN TRUE ELSE page_count <= max_pages[1])

\* line 244
LoopCondition ==
    /\ url_queue # <<>>
    /\ (IF max_pages = None THEN TRUE ELSE page_count < max_pages[1])

current_url == Head(url_queue)

\* lines 256-260
FileType(url) ==
    IF endswith(url, ".js") THEN "js"
    ELSE IF endswith(url, ".css") THEN "css"
    ELSE "html"

\* download_file, lines 164-174: a page is loaded in the Selenium driver, a
\* script or a stylesheet is fetched with requests.get
Fetcher(file_type) == IF file_type = "html" THEN "driver" ELSE "requests"

\* a mutant of Dequeued: no test of visited_urls
DequeuedUnchecked ==
    /\ pc = "loop"
    /\ LoopCondition

\* lines 244-250: the loop goes on and the entry at the front is not visited
Dequeued ==
    /\ pc = "loop"
    /\ LoopCondition
    /\ current_url \notin visited_urls

Logged(result) ==
    Append(fetched, [url |-> current_url, file_type |-> FileType(current_url), result |-> result])

\* a mutant of SkipVisited: the visited entry is left at the front of the queue
SkipVisitedKeeps ==
    /\ pc = "loop"
    /\ LoopCondition
    /\ current_url \in visited_urls
    /\ UNCHANGED vars

\* a mutant of SkipVisited: the skipped entry is counted as a processed page
SkipVisitedCounts ==
    /\ pc = "loop"
    /\ LoopCondition
    /\ current_url \in visited_urls
    /\ url_queue' = Tail(url_queue)
    /\ page_count' = page_count + 1
    /\ UNCHANGED <<visited_urls, max_pages, pc, files, site, faults, fetched,
                   enqueued, calls, pureVars, mainVars, poolVars, mediaVars>>

\* line 250: the entry is already visited
SkipVisited ==
    /\ pc = "loop"
    /\ LoopCondition
    /\ current_url \in visited_urls
    /\ url_queue' = Tail(url_queue)
    /\ UNCHANGED <<visited_urls, page_count, max_pages, pc, files, site, faults, fetched,
                   enqueued, calls, pureVars, mainVars, poolVars, mediaVars>>

\* a mutant of FetchFails: download_file lets the exception through
FetchFailsUncaught ==
    /\ pc = "loop"
    /\ LoopCondition
    /\ current_url \notin visited_urls
    /\ faults < MaxFaults
    /\ faults' = faults + 1
    /\ visited_urls' = visited_urls \cup {current_url}
    /\ url_queue' = Tail(url_queue)
    /\ fetched' = Logged("fetch_error")
    /\ pc' = "raised"
    /\ calls' = Append(calls, "download_file")
    /\ UNCHANGED <<page_count, max_pages, files, site, enqueued, pureVars, mainVars, poolVars, mediaVars>>

\* a mutant of FetchFails: the URL of a failed download is not kept in visited_urls
FetchFailsForgets ==
    /\ Dequeued
    /\ faults < MaxFaults
    /\ faults' = faults + 1
    /\ url_queue' = Tail(url_queue)
    /\ page_count' = page_count + 1
    /\ fetched' = Logged("fetch_error")
    /\ calls' = calls \o <<"download_file", "sleep">>
    /\ UNCHANGED <<visited_urls, max_pages, pc, files, site, enqueued, pureVars, mainVars, poolVars, mediaVars>>

\* a mutant of FetchFails: the URL of a failed download is appended to the queue again
FetchFailsRequeues ==
    /\ Dequeued
    /\ faults < MaxFaults
    /\ faults' = faults + 1
    /\ visited_urls' = visited_urls \cup {current_url}
    /\ url_queue' = Append(Tail(url_queue), current_url)
    /\ enqueued' = Append(enqueued, current_url)
    /\ page_count' = page_count + 1
    /\ fetched' = Logged("fetch_error")
    /\ calls' = calls \o <<"download_file", "sleep">>
    /\ UNCHANGED <<max_pages, pc, files, site, pureVars, mainVars, poolVars, mediaVars>>

\* a mutant of FetchFails: the loop goes to the next entry without the delay
FetchFailsNoDelay ==
    /\ Dequeued
    /\ faults < MaxFaults
    /\ faults' = faults + 1
    /\ visited_urls' = visited_urls \cup {current_url}
    /\ url_queue' = Tail(url_queue)
    /\ page_count' = page_count + 1
    /\ fetched' = Logged("fetch_error")
    /\ calls' = Append(calls, "download_file")
    /\ UNCHANGED <<max_pages, pc, files, site, enqueued, pureVars, mainVars, poolVars, mediaVars>>

\* download_file: driver.get, requests.get or raise_for_status raises; the
\* exception is caught and None returned
FetchFails ==
    /\ Dequeued
    /\ faults < MaxFaults
    /\ faults' = faults + 1
    /\ visited_urls' = visited_urls \cup {current_url}
    /\ url_queue' = Tail(url_queue)
    /\ page_count' = page_count + 1
    /\ fetched' = Logged("fetch_error")
    /\ calls' = calls \o <<"download_file", "sleep">>
    /\ UNCHANGED <<max_pages, pc, files, site, enqueued, pureVars, mainVars, poolVars, mediaVars>>

\* download_file: open(filepath, "w") raises (nothing written) or f.write
\* raises (the file is left truncated)
WriteFails ==
    /\ Dequeued
    /\ faults < MaxFaults
    /\ faults' = faults + 1
    /\ visited_urls' = visited_urls \cup {current_url}
    /\ url_queue' = Tail(url_queue)
    /\ page_count' = page_count + 1
    /\ fetched' = Logged("write_error")
    /\ \/ files' = files
       \/ files' = (FilePath(FileType(current_url), current_url) :> <<>>) @@ files
    /\ calls' = calls \o <<"download_file", "sleep">>
    /\ UNCHANGED <<max_pages, pc, site, enqueued, pureVars, mainVars, poolVars, mediaVars>>

\* a mutant of DownloadAsset: the file is written in the directory of pages
DownloadAssetInHtmlDir ==
    /\ Dequeued
    /\ FileType(current_url) # "html"
    /\ visited_urls' = visited_urls \cup {current_url}
    /\ url_queue' = Tail(url_queue)
    /\ page_count' = page_count + 1
    /\ fetched' = Logged("ok")
    /\ files' = (FilePath("html", current_url) :> <<>>) @@ files
    /\ calls' = calls \o <<"download_file", "sleep">>
    /\ UNCHANGED <<max_pages, pc, site, faults, enqueued, pureVars, mainVars, poolVars, mediaVars>>

\* download_file returns the path of a script or a stylesheet: no links extracted
DownloadAsset ==
    /\ Dequeued
    /\ FileType(current_url) # "html"
    /\ visited_urls' = visited_urls \cup {current_url}
    /\ url_queue' = Tail(url_queue)
    /\ page_count' = page_count + 1
    /\ fetched' = Logged("ok")
    /\ files' = (FilePath(FileType(current_url), current_url) :> <<>>) @@ files
    /\ calls' = calls \o <<"download_file", "sleep">>
    /\ UNCHANGED <<max_pages, pc, site, faults, enqueued, pureVars, mainVars, poolVars, mediaVars>>

\* download_file returns the path of a page; the file is read back and its
\* links are appended when not visited
DownloadPage ==
    /\ Dequeued
    /\ FileType(current_url) = "html"
    /\ \E filepath \in {FilePath("html", current_url)} :
       \E written \in {(filepath :> Served(current_url)) @@ files} :
       \E html_content \in {written[filepath]} :
       \E visited \in {visited_urls \cup {current_url}} :
          /\ ~extract_links_raises(current_url, html_content)
          /\ \E links \in {extract_links(current_url, html_content)} :
                /\ url_queue' = Enqueue(Tail(url_queue), links, visited)
                /\ enqueued' = enqueued \o Enqueue(<<>>, links, visited)
          /\ files' = written
          /\ visited_urls' = visited
    /\ page_count' = page_count + 1
    /\ fetched' = Logged("ok")
    /\ calls' = calls \o <<"download_file", "sleep">>
    /\ UNCHANGED <<max_pages, pc, site, faults, pureVars, mainVars, poolVars, mediaVars>>

\* line 266: open(filepath, "r") or f.read() raises: crawl is left by the exception
ReadFails ==
    /\ Dequeued
    /\ FileType(current_url) = "html"
    /\ faults < MaxFaults
    /\ faults' = faults + 1
    /\ files' = (FilePath("html", current_url) :> Served(current_url)) @@ files
    /\ visited_urls' = visited_urls \cup {current_url}
    /\ url_queue' = Tail(url_queue)
    /\ fetched' = Logged("ok")
    /\ pc' = "raised"
    /\ calls' = Append(calls, "download_file")
    /\ UNCHANGED <<page_count, max_pages, site, enqueued, pureVars, mainVars, poolVars, mediaVars>>

\* line 270: extract_links raises ValueError on a link urljoin cannot split
ExtractRaises ==
    /\ Dequeued
    /\ FileType(current_url) = "html"
    /\ extract_links_raises(current_url, Served(current_url))
    /\ files' = (FilePath("html", current_url) :> Served(current_url)) @@ files
    /\ visited_urls' = visited_urls \cup {current_url}
    /\ url_queue' = Tail(url_queue)
    /\ fetched' = Logged("ok")
    /\ pc' = "raised"
    /\ calls' = Append(calls, "download_file")
    /\ UNCHANGED <<page_count, max_pages, site, faults, enqueued, pureVars, mainVars, poolVars, mediaVars>>

\* what crawl returns: it ends without a return statement
crawl_returns == None

\* line 244 is false: the loop ends and crawl returns
Finish ==
    /\ pc = "loop"
    /\ ~LoopCondition
    /\ pc' = "done"
    /\ UNCHANGED <<visited_urls, url_queue, page_count, max_pages, files, site, faults,
                   fetched, enqueued, calls, pureVars, mainVars, poolVars, mediaVars>>

\* EDDataExpressCrawler.__init__ and the call of crawl(max_pages)
Init ==
    /\ visited_urls = {}
    /\ url_queue = <<base_url>>
    /\ page_count = 0
    /\ max_pages \in {None} \cup {Some(n) : n \in 0..MaxBudget}
    /\ pc = "loop"
    /\ files = <<>>
    /\ site \in Sites
    /\ faults = 0
    /\ fetched = <<>>
    /\ enqueued = <<base_url>>
    /\ calls = <<>>
    /\ arg_url = ""
    /\ arg_content_type = None
    /\ ret = None
    /\ main_pc = "crawl"
    /\ args = [max_pages |-> max_pages, only_html |-> FALSE, skip_data |-> FALSE,
               skip_media |-> FALSE]
    /\ available = {"chrome"}
    /\ driver = Some("chrome")
    /\ tried = <<[browser |-> "chrome", outcome |-> "driver"]>>
    /\ log = <<"crawl">>
    /\ workers = <<>>
    /\ downloaded_urls = {}
    /\ html_files = <<>>
    /\ media_urls = <<>>
    /\ media_calls = <<>>

(***************************************************************************)
(* MediaDownloader.get_media_type                                          *)
(***************************************************************************)
DocumentTypes ==
    { "application/pdf",
      "application/msword",
      "application/vnd.openxmlformats-officedocument.wordprocessingml.document",
      "application/vnd.ms-excel",
      "application/vnd.openxmlformats-officedocument.spreadsheetml.sheet",
      "application/vnd.ms-powerpoint",
      "application/vnd.openxmlformats-officedocument.presentationml.presentation" }

ImageExts == {".jpg", ".jpeg", ".png", ".gif", ".svg", ".webp", ".ico"}

VideoExts == {".mp4", ".webm", ".ogg", ".mov", ".avi"}

DocumentExts == {".pdf", ".doc", ".docx", ".xls", ".xlsx", ".ppt", ".pptx"}

\* str.endswith(tuple)
endswithAny(s, suffixes) == \E e \in suffixes : endswith(s, e)

\* lines 63-76: the kind of a declared type, "" when no branch returns
byContentType(content_type) ==
    IF startswith(content_type, "image/") THEN "images"
    ELSE IF startswith(content_type, "video/") THEN "videos"
    ELSE IF content_type \in DocumentTypes THEN "documents"
    ELSE ""

\* lines 79-87
byExtension(path) ==
    IF endswithAny(path, ImageExts) THEN "images"
    ELSE IF endswithAny(path, VideoExts) THEN "videos"
    ELSE IF endswithAny(path, DocumentExts) THEN "documents"
    ELSE "other"

\* a mutant of get_media_type: the extension table is consulted first
get_media_type_extension_first(url, content_type) ==
    IF byExtension(lower(urlparse(url).path)) # "other"
    THEN byExtension(lower(urlparse(url).path))
    ELSE IF content_type # None /\ content_type[1] # "" /\ byContentType(content_type[1]) # ""
    THEN byContentType(content_type[1])
    ELSE "other"

get_media_type(url, content_type) ==
    IF content_type # None /\ content_type[1] # "" /\ byContentType(content_type[1]) # ""
    THEN byContentType(content_type[1])
    ELSE byExtension(lower(urlparse(url).path))

(***************************************************************************)
(* MediaDownloader.url_to_filename.  hash(url) is salted anew by each      *)
(* interpreter process, so its residue is an input of the function.        *)
(***************************************************************************)
\* str.rfind(c) + 1: the position of the last c in s, 0 when there is none
rfind(s, c) ==
    IF Contains(s, c)
    THEN CHOOSE i \in 1..Len(s) : Ch(s, i) = c /\ \A j \in (i + 1)..Len(s) : Ch(s, j) # c
    ELSE 0

\* os.path.basename: what follows the last slash
basename(path) == SubSeq(path, rfind(path, "/") + 1, Len(path))

\* posixpath.splitext(p)[1]: from the last dot of the last component, unless
\* only dots precede it there
splitext(p) ==
    IF /\ rfind(p, ".") > rfind(p, "/")
       /\ \E i \in (rfind(p, "/") + 1)..(rfind(p, ".") - 1) : Ch(p, i) # "."
    THEN SubSeq(p, rfind(p, "."), Len(p))
    ELSE ""

\* urllib.parse._splittype(url)[1]: url without a leading 'scheme:'
splittype(url) ==
    IF Find(url, ":") > 1 /\ ~Contains(SubSeq(url, 1, Find(url, ":") - 1), "/")
    THEN SubSeq(url, Find(url, ":") + 1, Len(url))
    ELSE url

\* mimetypes.guess_extension(mimetypes.guess_type(url)[0]) on the entries of
\* the standard table for the suffixes the URLs of this model end with; None
\* when the suffix of the URL (query and fragment included) is not in the table
guess_extension(url) ==
    IF lower(splitext(splittype(url))) \in {".png", ".gif", ".pdf", ".jpg"}
    THEN Some(lower(splitext(splittype(url))))
    ELSE IF lower(splitext(splittype(url))) = ".jpeg" THEN Some(".jpg")
    ELSE None

HashModulus == 10000

\* the residues of hash(url) the model draws
MaxHashResidue == 1

HashResidues == 0..MaxHashResidue \cup {HashModulus - 1}

Digit(d) == Ch(Digits, d + 1)

\* f"{n:04d}" for 0 <= n < 10000
format04d(n) ==
    Digit(n \div 1000) \o Digit((n \div 100) % 10) \o Digit((n \div 10) % 10) \o Digit(n % 10)

\* lines 99-107: the name given to a URL whose path has no last component
hashed_filename(url, h) ==
    "file_" \o format04d(h % HashModulus)
    \o (IF guess_extension(url) # None THEN guess_extension(url)[1] ELSE "")

MediaDownloader_url_to_filename(url, h) ==
    replace(replace(replace(
        IF basename(urlparse(url).path) = "" THEN hashed_filename(url, h)
        ELSE basename(urlparse(url).path),
        "?", "_"), "&", "_"), "=", "_")

(***************************************************************************)
(* The pure functions applied to inputs drawn from bounded sets: the       *)
(* initial state draws a URL and a declared content type, an action        *)
(* applies one function and records what it returned.                      *)
(***************************************************************************)
MaxPathLen == 5

PathAlphabet == {"/", "a", "."}

RECURSIVE Strings(_)
Strings(n) ==
    IF n = 0 THEN {""}
    ELSE Strings(n - 1) \cup {s \o c : s \in Strings(n - 1), c \in PathAlphabet}

\* https://x followed by no path or by every path of up to MaxPathLen characters
\* after its leading slash, and the URLs of the specification's examples
FilenameUrls ==
    {"https://x" \o "/" \o p : p \in Strings(MaxPathLen)}
    \cup {"https://x", "https://x/a/b", "https://x/c", "https://x/c?d=1&e=2",
          "https://x/v1.2/report", "https://x/a/b#f"}

MediaUrls ==
    {"https://x/" \o stem \o ext \o tail :
        stem \in {"y", "m/y", ""},
        ext  \in ImageExts \cup VideoExts \cup DocumentExts \cup {"", ".csv", ".js", ".PNG", ".Pdf"},
        tail \in {"", "?v=1", "#a.png"}}

ContentTypes ==
    {None, Some("")}
    \cup {Some(t) : t \in DocumentTypes}
    \cup {Some(t) : t \in {"image/png", "image/", "video/mp4", "text/html", "text/csv",
                           "Image/PNG", "application/pdf; charset=binary",
                           "application/json"}}

InitPure ==
    /\ visited_urls = {}
    /\ url_queue = <<>>
    /\ page_count = 0
    /\ max_pages = None
    /\ pc = "idle"
    /\ files = <<>>
    /\ site = [k \in PageKeys |-> <<>>]
    /\ faults = 0
    /\ fetched = <<>>
    /\ enqueued = <<>>
    /\ calls = <<>>
    /\ ret = None
    /\ main_pc = "idle"
    /\ args = [max_pages |-> None, only_html |-> FALSE, skip_data |-> FALSE,
               skip_media |-> FALSE]
    /\ available = {}
    /\ driver = None
    /\ tried = <<>>
    /\ log = <<>>
    /\ workers = <<>>
    /\ downloaded_urls = {}
    /\ html_files = <<>>
    /\ media_urls = <<>>
    /\ media_calls = <<>>
    /\ \/ arg_url \in MediaUrls /\ arg_content_type \in ContentTypes
       \/ arg_url \in FilenameUrls /\ arg_content_type = None

CallGetMediaType ==
    /\ pc = "idle"
    /\ ret = None
    /\ ret' = Some([fn |-> "get_media_type", value |-> get_media_type(arg_url, arg_content_type)])
    /\ UNCHANGED <<crawlVars, arg_url, arg_content_type, mainVars, poolVars, mediaVars>>

CallUrlToFilename ==
    /\ pc = "idle"
    /\ ret = None
    /\ ret' = Some([fn |-> "url_to_filename", value |-> url_to_filename(arg_url)])
    /\ UNCHANGED <<crawlVars, arg_url, arg_content_type, mainVars, poolVars, mediaVars>>

\* MediaDownloader.url_to_filename in a process whose hash(arg_url) is h
CallMediaUrlToFilename ==
    /\ pc = "idle"
    /\ ret = None
    /\ \E h \in HashResidues :
          ret' = Some([fn |-> "MediaDownloader.url_to_filename",
                       value |-> MediaDownloader_url_to_filename(arg_url, h)])
    /\ UNCHANGED <<crawlVars, arg_url, arg_content_type, mainVars, poolVars, mediaVars>>

NextPure ==
    \/ CallGetMediaType
    \/ CallUrlToFilename
    \/ CallMediaUrlToFilename

SpecPure == InitPure /\ [][NextPure]_vars

Next ==
    \/ SkipVisited
    \/ FetchFails
    \/ WriteFails
    \/ DownloadAsset
    \/ DownloadPage
    \/ ReadFails
    \/ ExtractRaises
    \/ Finish

Spec == Init /\ [][Next]_vars

\* crawl is a sequential loop and each of its steps ends (requests.get has a
\* timeout, the driver a page load timeout): a step that can be taken is taken
SpecFair == Spec /\ WF_vars(Next)

(***************************************************************************)
(* EDDataExpressCrawler.setup_selenium                                     *)
(***************************************************************************)
\* lines 64-68: the setup functions, in the order they are tried
browsers == <<"chrome", "firefox", "edge">>

\* line 80
RuntimeError == <<"RuntimeError", "Could not initialize any supported web driver">>

\* lines 70-78: the driver of the first browser whose setup returns one; a
\* setup that fails returns None and the next is tried
RECURSIVE first_driver(_, _)
first_driver(setups, avail) ==
    IF setups = <<>> THEN None
    ELSE IF Head(setups) \in avail THEN Some(Head(setups))
    ELSE first_driver(Tail(setups), avail)

\* the ways the setup of a browser that is not available fails: _setup_chrome,
\* _setup_firefox and _setup_edge return None when the driver cannot be
\* started (lines 96-98, 112-114, 130-132) and raise when an import or the
\* options fail, outside their try (lines 84-91, 102-107, 118-125)
Failures == [{browsers[i] : i \in 1..Len(browsers)} -> {"None", "exception"}]

\* a mutant of attempts: an exception of a setup function ends the loop
RECURSIVE attempts_uncaught(_, _, _)
attempts_uncaught(setups, avail, how) ==
    IF setups = <<>> THEN <<>>
    ELSE IF Head(setups) \in avail
    THEN <<[browser |-> Head(setups), outcome |-> "driver"]>>
    ELSE IF how[Head(setups)] = "exception"
    THEN <<[browser |-> Head(setups), outcome |-> "exception"]>>
    ELSE <<[browser |-> Head(setups), outcome |-> how[Head(setups)]]>>
            \o attempts_uncaught(Tail(setups), avail, how)

\* lines 70-78: the setup functions the loop calls, in order, with the outcome
\* of each; the loop returns at the first driver, and goes on after None and
\* after an exception
RECURSIVE attempts(_, _, _)
attempts(setups, avail, how) ==
    IF setups = <<>> THEN <<>>
    ELSE IF Head(setups) \in avail
    THEN <<[browser |-> Head(setups), outcome |-> "driver"]>>
    ELSE <<[browser |-> Head(setups), outcome |-> how[Head(setups)]]>>
            \o attempts(Tail(setups), avail, how)

\* a mutant of setup_selenium: it returns without a driver instead of raising
setup_selenium_silent(avail) == first_driver(browsers, avail)

\* what self.driver is set to, or the exception raised
setup_selenium(avail) ==
    IF first_driver(browsers, avail) # None THEN first_driver(browsers, avail)
    ELSE RuntimeError

(***************************************************************************)
(* main (main.py): the crawl stage, in which the actions of crawl above    *)
(* run, then the data extraction stage and the media download stage, each  *)
(* of them taken as one step that returns or raises.                       *)
(***************************************************************************)
Flags == [max_pages : {None, Some(0)}, only_html : BOOLEAN, skip_data : BOOLEAN,
          skip_media : BOOLEAN]

\* the sites main is run on
MainSites ==
    Sites \cap
    { [k \in PageKeys |->
          IF k = "https://x/"
          THEN <<A("/b#f"), Script("/s.js"), A("/b"), Link("stylesheet", "/t.css"),
                 A("https://y/b"), A("/")>>
          ELSE IF k = "https://x/b" THEN <<A("/b"), A("c")>>
          ELSE <<A("/c"), A("//[")>>],
      [k \in PageKeys |-> IF k = "https://x/c" THEN <<>> ELSE <<A("/b"), A("c")>>] }

\* parse_arguments has returned; nothing is constructed yet
MainInit ==
    /\ visited_urls = {}
    /\ url_queue = <<>>
    /\ page_count = 0
    /\ max_pages = None
    /\ pc = "new"
    /\ files = <<>>
    /\ site \in MainSites
    /\ faults = 0
    /\ fetched = <<>>
    /\ enqueued = <<>>
    /\ calls = <<>>
    /\ arg_url = ""
    /\ arg_content_type = None
    /\ ret = None
    /\ main_pc = "start"
    /\ args \in Flags
    /\ available \in SUBSET {browsers[i] : i \in 1..Len(browsers)}
    /\ driver = None
    /\ tried = <<>>
    /\ log = <<>>
    /\ workers = <<>>
    /\ downloaded_urls = {}
    /\ html_files = <<>>
    /\ media_urls = <<>>
    /\ media_calls = <<>>

\* lines 84-90: the crawler is constructed and crawl(max_pages) is called
StartCrawl ==
    /\ main_pc = "start"
    /\ setup_selenium(available) # RuntimeError
    /\ driver' = setup_selenium(available)
    /\ \E how \in Failures : tried' = attempts(browsers, available, how)
    /\ visited_urls' = {}
    /\ url_queue' = <<base_url>>
    /\ enqueued' = <<base_url>>
    /\ calls' = <<>>
    /\ page_count' = 0
    /\ max_pages' = args.max_pages
    /\ pc' = "loop"
    /\ main_pc' = "crawl"
    /\ log' = Append(log, "crawl")
    /\ UNCHANGED <<files, site, faults, fetched, pureVars, poolVars, mediaVars, args, available>>

\* lines 84-87: setup_selenium raises in the constructor, outside main's try
CrawlerInitFails ==
    /\ main_pc = "start"
    /\ setup_selenium(available) = RuntimeError
    /\ main_pc' = "aborted"
    /\ log' = Append(log, "crawler_init_error")
    /\ \E how \in Failures : tried' = attempts(browsers, available, how)
    /\ UNCHANGED <<crawlVars, pureVars, poolVars, mediaVars, args, available, driver>>

\* EDDataExpressCrawler.close, lines 283-286: the driver is quit when there is one
close(events) == IF driver # None THEN events \o <<"close", "quit">> ELSE Append(events, "close")

\* lines 89-94: crawl has returned; finally closes the crawler
CrawlReturns ==
    /\ main_pc = "crawl"
    /\ pc = "done"
    /\ log' = close(log)
    /\ main_pc' = "after_crawl"
    /\ UNCHANGED <<crawlVars, pureVars, poolVars, mediaVars, args, available, driver, tried>>

\* a mutant of CrawlRaises: try ... finally without the except clause
CrawlRaisesUncaught ==
    /\ main_pc = "crawl"
    /\ pc = "raised"
    /\ log' = close(log)
    /\ main_pc' = "aborted"
    /\ UNCHANGED <<crawlVars, pureVars, poolVars, mediaVars, args, available, driver, tried>>

\* lines 89-94: crawl has raised; the error is logged, finally closes the crawler
CrawlRaises ==
    /\ main_pc = "crawl"
    /\ pc = "raised"
    /\ log' = close(Append(log, "crawl_error"))
    /\ main_pc' = "after_crawl"
    /\ UNCHANGED <<crawlVars, pureVars, poolVars, mediaVars, args, available, driver, tried>>

\* lines 97-100
OnlyHtml ==
    /\ main_pc = "after_crawl"
    /\ args.only_html
    /\ main_pc' = "done"
    /\ log' = Append(log, "completed")
    /\ UNCHANGED <<crawlVars, pureVars, poolVars, mediaVars, args, available, driver, tried>>

\* lines 103-115: the extractor is constructed (its setup_selenium uses Chrome
\* alone), extract_all_data returns or raises, the extractor is closed
ExtractData ==
    /\ main_pc = "after_crawl"
    /\ ~args.only_html
    /\ ~args.skip_data
    /\ "chrome" \in available
    /\ \E raised \in BOOLEAN :
          log' = log \o <<"data">> \o (IF raised THEN <<"data_error">> ELSE <<>>)
                     \o <<"data_close">>
    /\ main_pc' = "after_data"
    /\ UNCHANGED <<crawlVars, pureVars, poolVars, mediaVars, args, available, driver, tried>>

\* lines 105-108: the extractor's setup_selenium raises in the constructor,
\* outside main's try
ExtractorInitFails ==
    /\ main_pc = "after_crawl"
    /\ ~args.only_html
    /\ ~args.skip_data
    /\ "chrome" \notin available
    /\ log' = log \o <<"data", "extractor_init_error">>
    /\ main_pc' = "aborted"
    /\ UNCHANGED <<crawlVars, pureVars, poolVars, mediaVars, args, available, driver, tried>>

\* line 103 is false
SkipData ==
    /\ main_pc = "after_crawl"
    /\ ~args.only_html
    /\ args.skip_data
    /\ main_pc' = "after_data"
    /\ UNCHANGED <<crawlVars, pureVars, poolVars, mediaVars, args, available, driver, tried, log>>

\* a mutant of DownloadMedia: no test of args.skip_media
DownloadMediaUngated ==
    /\ main_pc = "after_data"
    /\ \E raised \in BOOLEAN :
          log' = log \o <<"media">> \o (IF raised THEN <<"media_error">> ELSE <<>>)
                     \o <<"completed">>
    /\ main_pc' = "done"
    /\ UNCHANGED <<crawlVars, pureVars, poolVars, mediaVars, args, available, driver, tried>>

\* lines 118-135: the downloader is constructed, process_html_directory
\* returns or raises, and main goes on to its end
DownloadMedia ==
    /\ main_pc = "after_data"
    /\ ~args.skip_media
    /\ \E raised \in BOOLEAN :
          log' = log \o <<"media">> \o (IF raised THEN <<"media_error">> ELSE <<>>)
                     \o <<"completed">>
    /\ main_pc' = "done"
    /\ UNCHANGED <<crawlVars, pureVars, poolVars, mediaVars, args, available, driver, tried>>

\* line 118 is false
SkipMedia ==
    /\ main_pc = "after_data"
    /\ args.skip_media
    /\ main_pc' = "done"
    /\ log' = Append(log, "completed")
    /\ UNCHANGED <<crawlVars, pureVars, poolVars, mediaVars, args, available, driver, tried>>

MainNext ==
    \/ StartCrawl
    \/ CrawlerInitFails
    \/ SkipVisited
    \/ FetchFails
    \/ WriteFails
    \/ DownloadAsset
    \/ DownloadPage
    \/ ReadFails
    \/ ExtractRaises
    \/ Finish
    \/ CrawlReturns
    \/ CrawlRaises
    \/ OnlyHtml
    \/ ExtractData
    \/ ExtractorInitFails
    \/ SkipData
    \/ DownloadMedia
    \/ SkipMedia

SpecMain == MainInit /\ [][MainNext]_vars

(***************************************************************************)
(* crawl's loop run by several threads on one crawler object.  The program *)
(* itself calls crawl once, from main; this is the loop body of lines      *)
(* 244-279 with one step per statement that reads or writes url_queue or   *)
(* visited_urls, which is where a thread switch shows.  The source holds   *)
(* no lock.  The histories of the single loop (fetched, enqueued, calls)   *)
(* are not kept here: each worker has the history of its own downloads.    *)
(***************************************************************************)
MaxWorkers == 2

\* the sites the workers crawl
WorkerSites ==
    Sites \cap
    { [k \in PageKeys |->
          IF k = "https://x/"
          THEN <<A("/d"), A("/d"), A("/d?e=1"), Script("/s.js?v=1"), Link("icon", "/i.ico"),
                 A("d.pdf"), Script("//y/s.js")>>
          ELSE <<>>],
      [k \in PageKeys |->
          IF k = "https://x/" THEN <<A("/b"), A("c")>>
          ELSE IF k = "https://x/b" THEN <<A("/d")>>
          ELSE <<A("/c"), A("//[")>>] }

\* a thread that has entered crawl: line 241
NewWorker == [pc |-> "while", current_url |-> None, page_count |-> 0, fetched |-> <<>>]

WorkersInit ==
    /\ visited_urls = {}
    /\ url_queue = <<base_url>>
    /\ page_count = 0
    /\ max_pages \in {None, Some(MaxBudget)}
    /\ pc = "workers"
    /\ files = <<>>
    /\ site \in WorkerSites
    /\ faults = 0
    /\ fetched = <<>>
    /\ enqueued = <<>>
    /\ calls = <<>>
    /\ arg_url = ""
    /\ arg_content_type = None
    /\ ret = None
    /\ main_pc = "crawl"
    /\ args = [max_pages |-> max_pages, only_html |-> FALSE, skip_data |-> FALSE,
               skip_media |-> FALSE]
    /\ available = {"chrome"}
    /\ driver = Some("chrome")
    /\ tried = <<[browser |-> "chrome", outcome |-> "driver"]>>
    /\ log = <<"crawl">>
    /\ downloaded_urls = {}
    /\ html_files = <<>>
    /\ media_urls = <<>>
    /\ media_calls = <<>>
    /\ \E n \in 1..MaxWorkers : workers = [w \in 1..n |-> NewWorker]

\* what a step of a worker leaves alone besides the variables it names
WorkerFrame ==
    <<page_count, max_pages, pc, site, fetched, enqueued, calls, pureVars, mainVars, mediaVars>>

\* line 244: the loop condition, on the worker's own page_count
WorkerWhile(w) ==
    /\ workers[w].pc = "while"
    /\ workers' = [workers EXCEPT ![w].pc =
                      IF /\ url_queue # <<>>
                         /\ (IF max_pages = None THEN TRUE
                             ELSE workers[w].page_count < max_pages[1])
                      THEN "pop" ELSE "done"]
    /\ UNCHANGED <<visited_urls, url_queue, files, faults, WorkerFrame>>

\* line 246: url_queue.pop(0); IndexError when another worker emptied the list
WorkerPop(w) ==
    /\ workers[w].pc = "pop"
    /\ IF url_queue = <<>>
       THEN /\ workers' = [workers EXCEPT ![w].pc = "raised"]
            /\ UNCHANGED url_queue
       ELSE /\ workers' = [workers EXCEPT ![w].pc = "in", ![w].current_url = Some(Head(url_queue))]
            /\ url_queue' = Tail(url_queue)
    /\ UNCHANGED <<visited_urls, files, faults, WorkerFrame>>

\* lines 249-250: the test of visited_urls
WorkerIn(w) ==
    /\ workers[w].pc = "in"
    /\ workers' = [workers EXCEPT ![w].pc =
                      IF workers[w].current_url[1] \in visited_urls THEN "while" ELSE "add"]
    /\ UNCHANGED <<visited_urls, url_queue, files, faults, WorkerFrame>>

\* a mutant of WorkerAdd: the URL is not inserted
WorkerAddForgets(w) ==
    /\ workers[w].pc = "add"
    /\ workers' = [workers EXCEPT ![w].pc = "download"]
    /\ UNCHANGED <<visited_urls, url_queue, files, faults, WorkerFrame>>

\* line 253: visited_urls.add(current_url)
WorkerAdd(w) ==
    /\ workers[w].pc = "add"
    /\ visited_urls' = visited_urls \cup {workers[w].current_url[1]}
    /\ workers' = [workers EXCEPT ![w].pc = "download"]
    /\ UNCHANGED <<url_queue, files, faults, WorkerFrame>>

\* the worker after an iteration that called download_file: lines 275-279
Downloaded(w) ==
    [workers EXCEPT ![w].pc = "while",
                    ![w].page_count = @ + 1,
                    ![w].fetched = Append(@, workers[w].current_url[1])]

\* lines 262-279, download_file returns None
WorkerDownloadFails(w) ==
    /\ workers[w].pc = "download"
    /\ faults < MaxFaults
    /\ faults' = faults + 1
    /\ workers' = Downloaded(w)
    /\ UNCHANGED <<visited_urls, url_queue, files, WorkerFrame>>

\* lines 262-279, download_file returns a path: the links of a page are
\* appended when not in visited_urls
WorkerDownload(w) ==
    /\ workers[w].pc = "download"
    /\ \E url \in {workers[w].current_url[1]} :
       \E file_type \in {FileType(url)} :
          /\ files' = (FilePath(file_type, url) :> Served(url)) @@ files
          /\ IF file_type = "html"
             THEN /\ ~extract_links_raises(url, Served(url))
                  /\ url_queue' = Enqueue(url_queue, extract_links(url, Served(url)), visited_urls)
             ELSE UNCHANGED url_queue
    /\ workers' = Downloaded(w)
    /\ UNCHANGED <<visited_urls, faults, WorkerFrame>>

\* line 270: extract_links raises and the worker leaves crawl
WorkerExtractRaises(w) ==
    /\ workers[w].pc = "download"
    /\ \E url \in {workers[w].current_url[1]} :
          /\ FileType(url) = "html"
          /\ extract_links_raises(url, Served(url))
          /\ files' = (FilePath("html", url) :> Served(url)) @@ files
    /\ workers' = [workers EXCEPT ![w].pc = "raised",
                                   ![w].fetched = Append(@, workers[w].current_url[1])]
    /\ UNCHANGED <<visited_urls, url_queue, faults, WorkerFrame>>

WorkersNext ==
    \E w \in DOMAIN workers :
        \/ WorkerWhile(w)
        \/ WorkerPop(w)
        \/ WorkerIn(w)
        \/ WorkerAdd(w)
        \/ WorkerDownloadFails(w)
        \/ WorkerDownload(w)
        \/ WorkerExtractRaises(w)

SpecWorkers == WorkersInit /\ [][WorkersNext]_vars

(***************************************************************************)
(* MediaDownloader.process_html_directory and download_media               *)
(* (media_downloader.py), on pages given as their tags in document order.  *)
(***************************************************************************)
Img(src) == [tag |-> "img", ref |-> src, rel |-> ""]

Video(src) == [tag |-> "video", ref |-> src, rel |-> ""]

Embed(src) == [tag |-> "embed", ref |-> src, rel |-> ""]

\* lines 217-222: the anchors whose href, in lower case, ends in a document extension
DocumentAnchors(soup) ==
    SelectSeq(soup, LAMBDA t : t.tag = "a" /\ endswithAny(lower(t.ref), DocumentExts))

\* lines 183-222: the URLs in the order the function collects them
MediaCandidates(soup, base) ==
    UrlsOf(Resolved(base, SelectSeq(soup, LAMBDA t : t.tag = "img"), "media")
           \o Resolved(base, SelectSeq(soup, LAMBDA t : t.tag = "video"), "media")
           \o Resolved(base, SelectSeq(soup, LAMBDA t : t.tag = "audio"), "media")
           \o Resolved(base, SelectSeq(soup, LAMBDA t : t.tag \in {"object", "embed"}), "media")
           \o Resolved(base, DocumentAnchors(soup), "media"))

\* extract_media_from_html: an exception of urljoin is caught at line 226 and
\* the function returns []
extract_media_from_html(soup, base) ==
    Only({IF \E i \in 1..Len(found) : found[i] = ValueError THEN <<>> ELSE found :
             found \in {MediaCandidates(soup, base)}})

\* the pages process_html_directory finds in the directory
MediaDocs ==
    { <<Img("/a.png"), A("/d.pdf"), Img("/a.png"), A("/b")>>,
      <<Img("https://y/a.png"), A("d.PDF"), Embed("/m/")>>,
      <<A("/d.pdf"), Img("//[")>>,
      <<Video("/v.mp4"), Img("/a.png")>> }

MaxHtmlFiles == 2

RECURSIVE SeqsUpTo(_, _)
SeqsUpTo(S, n) ==
    IF n = 0 THEN {<<>>}
    ELSE SeqsUpTo(S, n - 1) \cup {Append(q, x) : q \in SeqsUpTo(S, n - 1), x \in S}

\* MediaDownloader.__init__ and the call of process_html_directory, line 244
MediaInit ==
    /\ visited_urls = {}
    /\ url_queue = <<>>
    /\ page_count = 0
    /\ max_pages = None
    /\ pc = "idle"
    /\ files = <<>>
    /\ site = [k \in PageKeys |-> <<>>]
    /\ faults = 0
    /\ fetched = <<>>
    /\ enqueued = <<>>
    /\ calls = <<>>
    /\ arg_url = ""
    /\ arg_content_type = None
    /\ ret = None
    /\ main_pc = "media"
    /\ args = [max_pages |-> None, only_html |-> FALSE, skip_data |-> FALSE,
               skip_media |-> FALSE]
    /\ available = {}
    /\ driver = None
    /\ tried = <<>>
    /\ log = <<"media">>
    /\ workers = <<>>
    /\ downloaded_urls = {}
    /\ html_files \in SeqsUpTo(MediaDocs, MaxHtmlFiles)
    /\ media_urls = <<>>
    /\ media_calls = <<>>

\* what a step of process_html_directory leaves alone besides the variables it names
MediaFrame ==
    <<visited_urls, url_queue, page_count, max_pages, pc, files, site, fetched, enqueued,
      calls, pureVars, mainVars, poolVars>>

\* the history after a call of download_media for the URL at hand
MediaLogged(result) == Append(media_calls, [url |-> Head(media_urls), result |-> result])

\* lines 252-254: the media URLs of the next page are extracted
NextHtmlFile ==
    /\ main_pc = "media"
    /\ media_urls = <<>>
    /\ html_files # <<>>
    /\ media_urls' = extract_media_from_html(Head(html_files), base_url)
    /\ html_files' = Tail(html_files)
    /\ UNCHANGED <<downloaded_urls, media_calls, faults, MediaFrame>>

\* line 259 is false: the URL has another host and download_media is not called
SkipOtherHost ==
    /\ main_pc = "media"
    /\ media_urls # <<>>
    /\ urlparse(Head(media_urls)).netloc # domain
    /\ media_urls' = Tail(media_urls)
    /\ UNCHANGED <<downloaded_urls, html_files, media_calls, faults, MediaFrame>>

\* lines 125-126: the URL is in downloaded_urls and download_media returns None
SkipDownloaded ==
    /\ main_pc = "media"
    /\ media_urls # <<>>
    /\ urlparse(Head(media_urls)).netloc = domain
    /\ Head(media_urls) \in downloaded_urls
    /\ media_calls' = MediaLogged("skipped")
    /\ media_urls' = Tail(media_urls)
    /\ UNCHANGED <<downloaded_urls, html_files, faults, MediaFrame>>

\* a mutant of MediaDownloadFails: the URL is put in downloaded_urls before the request
MediaDownloadFailsMarked ==
    /\ main_pc = "media"
    /\ media_urls # <<>>
    /\ urlparse(Head(media_urls)).netloc = domain
    /\ Head(media_urls) \notin downloaded_urls
    /\ faults < MaxFaults
    /\ faults' = faults + 1
    /\ \E result \in {"fetch_error", "write_error"} : media_calls' = MediaLogged(result)
    /\ downloaded_urls' = downloaded_urls \cup {Head(media_urls)}
    /\ media_urls' = Tail(media_urls)
    /\ UNCHANGED <<html_files, MediaFrame>>

\* lines 128-163: requests.get or raise_for_status raises, or open or a write
\* of a chunk does; the exception is caught at line 161 before line 157
MediaDownloadFails ==
    /\ main_pc = "media"
    /\ media_urls # <<>>
    /\ urlparse(Head(media_urls)).netloc = domain
    /\ Head(media_urls) \notin downloaded_urls
    /\ faults < MaxFaults
    /\ faults' = faults + 1
    /\ \E result \in {"fetch_error", "write_error"} : media_calls' = MediaLogged(result)
    /\ media_urls' = Tail(media_urls)
    /\ UNCHANGED <<downloaded_urls, html_files, MediaFrame>>

\* lines 128-159: the file is written and the URL is added to downloaded_urls
MediaDownloaded ==
    /\ main_pc = "media"
    /\ media_urls # <<>>
    /\ urlparse(Head(media_urls)).netloc = domain
    /\ Head(media_urls) \notin downloaded_urls
    /\ media_calls' = MediaLogged("ok")
    /\ downloaded_urls' = downloaded_urls \cup {Head(media_urls)}
    /\ media_urls' = Tail(media_urls)
    /\ UNCHANGED <<html_files, faults, MediaFrame>>

\* the loop of line 252 has ended and process_html_directory returns
MediaReturns ==
    /\ main_pc = "media"
    /\ media_urls = <<>>
    /\ html_files = <<>>
    /\ main_pc' = "done"
    /\ log' = Append(log, "completed")
    /\ UNCHANGED <<crawlVars, pureVars, poolVars, mediaVars, args, available, driver, tried>>

MediaNext ==
    \/ NextHtmlFile
    \/ SkipOtherHost
    \/ SkipDownloaded
    \/ MediaDownloadFails
    \/ MediaDownloaded
    \/ MediaReturns

SpecMedia == MediaInit /\ [][MediaNext]_vars

(***************************************************************************)
(* Properties                                                              *)
(***************************************************************************)
FetchedUrls == [i \in 1..Len(fetched) |-> fetched[i].url]

Range(seq) == {seq[i] : i \in 1..Len(seq)}

\* seq without the later occurrences of each element
RECURSIVE FirstOccurrences(_)
FirstOccurrences(seq) ==
    IF seq = <<>> THEN <<>>
    ELSE IF seq[Len(seq)] \in Range(SubSeq(seq, 1, Len(seq) - 1))
    THEN FirstOccurrences(SubSeq(seq, 1, Len(seq) - 1))
    ELSE Append(FirstOccurrences(SubSeq(seq, 1, Len(seq) - 1)), seq[Len(seq)])

Host(url) == urlparse(url).netloc

\* url without its fragment
Defrag(url) ==
    urlunsplit(urlparse(url).scheme, urlparse(url).netloc, urlparse(url).path,
               urlparse(url).query, "")

\* the in-scope URLs the document at url links to
LinksOf(url) ==
    UNION {{l \in {urljoin(u, doc[k].ref) :
                     k \in {n \in 1..Len(doc) :
                              \/ doc[n].tag \in {"a", "script"}
                              \/ (doc[n].tag = "link" /\ doc[n].rel = "stylesheet")}} :
              Host(l) = Host(base_url)} :
             u \in {url}, doc \in {Served(url)}}

\* the in-scope URLs reachable from the seed through the links of pages
RECURSIVE ReachableFrom(_)
ReachableFrom(S) ==
    Only({IF linked \subseteq S THEN S ELSE ReachableFrom(S \cup linked) :
             linked \in {UNION {LinksOf(u) : u \in S}}})

Reachable == ReachableFrom({base_url})

Occurrences(seq, x) == Cardinality({k \in 1..Len(seq) : seq[k] = x})

\* C1: download_file is invoked at most once for each URL, and visited_urls
\* holds each URL it was invoked for, once.
C1_Dedup ==
    /\ \A i, j \in 1..Len(fetched) : fetched[i].url = fetched[j].url => i = j
    /\ visited_urls = Range(FetchedUrls)
    /\ Cardinality(visited_urls) = Len(fetched)

\* a crawl that ended after a URL was appended to the queue three times or more
C1_Witness ==
    /\ pc = "done"
    /\ max_pages = None
    /\ \E u \in visited_urls : Occurrences(enqueued, u) >= 3

\* C2: every URL passed to download_file and every URL in url_queue has the
\* host of the seed URL.
C2_Scope ==
    /\ \A i \in 1..Len(fetched) : Host(fetched[i].url) = domain
    /\ \A i \in 1..Len(url_queue) : Host(url_queue[i]) = domain

\* a crawl that ended after a page with a link to another host was fetched
C2_Witness ==
    /\ pc = "done"
    /\ \E i \in 1..Len(fetched) :
          /\ fetched[i].result = "ok"
          /\ fetched[i].file_type = "html"
          /\ \E k \in 1..Len(Served(fetched[i].url)) :
                Host(urljoin(fetched[i].url, Served(fetched[i].url)[k].ref)) = "y"

A_B_C_D ==
    [k \in PageKeys |->
        IF k = "https://x/" THEN <<A("/b"), A("c")>>
        ELSE IF k = "https://x/b" THEN <<A("/d")>>
        ELSE <<>>]

\* C3: URLs are fetched in the order in which they were first enqueued; on
\* the site where the seed links to b then c and b links to d, the fetches of
\* a crawl without failures are those of the seed, b, c, d in this order.
C3_Fifo ==
    /\ FetchedUrls = SubSeq(FirstOccurrences(enqueued), 1, Len(fetched))
    /\ (site = A_B_C_D /\ pc = "done" /\ max_pages = None /\ faults = 0)
          => FetchedUrls = <<"https://x/", "https://x/b", "https://x/c", "https://x/d">>

C3_Witness ==
    /\ site = A_B_C_D
    /\ pc = "done"
    /\ Len(fetched) = 4
    /\ fetched[4].url = "https://x/d"

\* C4: with max_pages = n no more than n fetches are attempted, none when the
\* count is n; when more than n in-scope URLs are reachable and nothing
\* fails, crawl returns after exactly n attempts with url_queue not empty.
C4_Budget ==
    max_pages # None =>
        /\ Len(fetched) <= max_pages[1]
        /\ (pc = "done" /\ faults = 0 /\ Cardinality(Reachable) > max_pages[1])
              => /\ Len(fetched) = max_pages[1]
                 /\ page_count = max_pages[1]
                 /\ url_queue # <<>>

C4_Witness ==
    /\ pc = "done"
    /\ max_pages = Some(3)
    /\ faults = 0
    /\ Cardinality(Reachable) >= 5
    /\ Len(fetched) = 3
    /\ url_queue # <<>>

\* C5: a failed download never ends crawl, and a crawl without a budget that
\* returns has processed every URL that was queued and every in-scope URL
\* linked from a page it fetched, whatever downloads failed.
C5_ErrorIsolation ==
    /\ pc = "raised" => fetched[Len(fetched)].result = "ok"
    /\ (pc = "done" /\ max_pages = None) =>
          /\ url_queue = <<>>
          /\ Range(enqueued) \subseteq visited_urls
          /\ \A i \in 1..Len(fetched) :
                (fetched[i].result = "ok" /\ fetched[i].file_type = "html")
                   => LinksOf(fetched[i].url) \subseteq visited_urls

\* a crawl that ended after a download failed and a later one succeeded
C5_Witness ==
    /\ pc = "done"
    /\ max_pages = None
    /\ \E i, j \in 1..Len(fetched) :
          /\ i < j
          /\ fetched[i].result = "fetch_error"
          /\ fetched[j].result = "ok"

\* C6: when crawl returns after a download failed, what it returns is a report
\* whose errors list has an entry for each failed URL.
C6_ErrorsReported ==
    (pc = "done" /\ \E i \in 1..Len(fetched) : fetched[i].result # "ok") =>
        /\ crawl_returns # None
        /\ \A i \in 1..Len(fetched) :
              fetched[i].result # "ok"
                 => \E e \in Range(crawl_returns[1].errors) : e.url = fetched[i].url

C8_FragmentNormalized ==
    /\ \A i, j \in 1..Len(fetched) :
          Defrag(fetched[i].url) = Defrag(fetched[j].url) => i = j
    /\ \A i, j \in 1..Len(url_queue) :
          Defrag(url_queue[i]) = Defrag(url_queue[j]) => url_queue[i] = url_queue[j]

\* C9: a declared type that starts with image/ or video/ or is a listed
\* document type decides the kind whatever the URL; the extension of the URL's
\* path decides it only when the declared type is absent, empty or not listed.
C9_ClassifierPrecedence ==
    (ret # None /\ ret[1].fn = "get_media_type") =>
        IF arg_content_type # None /\ startswith(arg_content_type[1], "image/")
        THEN ret[1].value = "images"
        ELSE IF arg_content_type # None /\ startswith(arg_content_type[1], "video/")
        THEN ret[1].value = "videos"
        ELSE IF arg_content_type # None /\ arg_content_type[1] \in DocumentTypes
        THEN ret[1].value = "documents"
        ELSE /\ ret[1].value = "images"
                  <=> endswithAny(lower(urlparse(arg_url).path), ImageExts)
             /\ ret[1].value = "videos"
                  <=> endswithAny(lower(urlparse(arg_url).path), VideoExts)
             /\ ret[1].value = "documents"
                  <=> endswithAny(lower(urlparse(arg_url).path), DocumentExts)

\* the specification's example, and a declared type against a listed extension
C9_Witness ==
    \/ /\ arg_url = "https://x/y.csv"
       /\ arg_content_type = Some("image/png")
       /\ ret = Some([fn |-> "get_media_type", value |-> "images"])
    \/ /\ arg_url = "https://x/y.pdf"
       /\ arg_content_type = Some("video/mp4")
       /\ ret = Some([fn |-> "get_media_type", value |-> "videos"])

\* the last non-empty segment of path has a dot
HasExtension(path) ==
    LET segments == split(strip(path, "/"), "/")
    IN  Contains(segments[Len(segments)], ".")

\* C10: url_to_filename gives index.html for an empty or '/' path; otherwise
\* the path's segments joined with '_', with .html appended when the path has
\* no file extension.
C10_PathDerivation ==
    (ret # None /\ ret[1].fn = "url_to_filename") =>
        ret[1].value =
            IF urlparse(arg_url).path \in {"", "/"} THEN "index.html"
            ELSE join(split(strip(urlparse(arg_url).path, "/"), "/"), "_")
                 \o (IF HasExtension(urlparse(arg_url).path) THEN "" ELSE ".html")

\* url without its query and its fragment
Dequery(url) == urlunsplit(urlparse(url).scheme, urlparse(url).netloc, urlparse(url).path, "", "")

\* '?' and the query, with each of '?', '&' and '=' replaced by '_'
SafeQuery(url) ==
    replace(replace(replace("?" \o urlparse(url).query, "?", "_"), "&", "_"), "=", "_")

\* s occurs in t
RECURSIVE Within(_, _)
Within(s, t) ==
    IF Len(t) < Len(s) THEN FALSE
    ELSE startswith(t, s) \/ Within(s, Tail(t))

\* C11: the name derived for a URL with a query string holds the query with
\* '?', '&' and '=' replaced by '_', and differs from the name derived for the
\* URL without the query; so for https://x/c?d=1&e=2 and https://x/c.
C11_QueryKept ==
    (/\ ret # None
     /\ ret[1].fn \in {"url_to_filename", "MediaDownloader.url_to_filename"}
     /\ urlparse(arg_url).query # "")
        => /\ Within(SafeQuery(arg_url), ret[1].value)
           /\ ret[1].fn = "url_to_filename"
                 => ret[1].value # url_to_filename(Dequery(arg_url))
           /\ ret[1].fn = "MediaDownloader.url_to_filename"
                 => \A h \in HashResidues :
                       ret[1].value # MediaDownloader_url_to_filename(Dequery(arg_url), h)

\* C12: two fetched URLs of the same kind that are distinct after normalisation
\* (they differ in more than the fragment) are never written to the same file:
\* url_to_filename gives them different names.
C12_NoPathCollision ==
    \A i, j \in 1..Len(fetched) :
        (/\ fetched[i].result = "ok"
         /\ fetched[j].result = "ok"
         /\ fetched[i].file_type = fetched[j].file_type
         /\ Defrag(fetched[i].url) # Defrag(fetched[j].url))
            => /\ url_to_filename(fetched[i].url) # url_to_filename(fetched[j].url)
               /\ FilePath(fetched[i].file_type, fetched[i].url)
                     # FilePath(fetched[j].file_type, fetched[j].url)

\* the pages whose links crawl has extracted
PagesExtracted ==
    {fetched[i].url : i \in {k \in 1..Len(fetched) :
        /\ fetched[k].result = "ok"
        /\ fetched[k].file_type = "html"
        /\ ~extract_links_raises(fetched[k].url, Served(fetched[k].url))
        /\ (pc = "raised" => k < Len(fetched))}}

\* the links extract_links returned for these pages, as records of a URL and
\* a type: "html" for an anchor, "js" for a script tag, "css" for a stylesheet link
LinksExtracted == UNION {Range(extract_links(p, Served(p))) : p \in PagesExtracted}

\* C13: a URL discovered from script tags only is downloaded as a script and
\* one discovered from stylesheet links only as a stylesheet, with requests
\* and into the js or css directory; a URL discovered from anchors only is
\* downloaded as a page, with the driver.
C13_KindRouting ==
    LET links == LinksExtracted
    IN  \A i \in 1..Len(fetched) : \A t \in {"html", "js", "css"} :
            {l.type : l \in {m \in links : m.url = fetched[i].url}} = {t}
                => /\ fetched[i].file_type = t
                   /\ Fetcher(fetched[i].file_type)
                         = (IF t = "html" THEN "driver" ELSE "requests")
                   /\ fetched[i].result = "ok"
                         => FilePath(t, fetched[i].url) \in DOMAIN files

\* C14: crawl is never left by an exception: whichever step fails for one
\* URL (the fetch, the write, the reading back of the saved file, the
\* resolution of a malformed link), crawl is in its loop or has returned.
C14_NeverRaises == pc \in {"loop", "done"}

\* C15: when no browser's driver can be set up, the construction of the
\* crawler raises and main is left before crawl is called: nothing is fetched,
\* nothing is written and no stage is started; main goes past the
\* construction only with the driver of an available browser.
C15_NoRendererAborts ==
    /\ available = {} =>
          /\ main_pc \in {"start", "aborted"}
          /\ main_pc = "aborted" => log = <<"crawler_init_error">>
          /\ main_pc = "start" => log = <<>>
          /\ driver = None
          /\ fetched = <<>>
          /\ files = <<>>
          /\ visited_urls = {}
    /\ main_pc \notin {"start", "aborted"} => driver # None /\ driver[1] \in available
    /\ (main_pc = "aborted" /\ Head(log) = "crawler_init_error") => available = {}

\* main was left by the constructor's RuntimeError
C15_Witness ==
    /\ available = {}
    /\ main_pc = "aborted"
    /\ log = <<"crawler_init_error">>

\* the pages that were fetched and saved
PagesSaved ==
    {fetched[i].url : i \in {k \in 1..Len(fetched) :
        fetched[k].result = "ok" /\ fetched[k].file_type = "html"}}

\* the in-scope URLs reachable from the seed through the links of saved pages
RECURSIVE ReachableThroughSaved(_)
ReachableThroughSaved(S) ==
    Only({IF linked \subseteq S THEN S ELSE ReachableThroughSaved(S \cup linked) :
             linked \in {UNION {LinksOf(u) : u \in S \cap PagesSaved}}})

\* C16: when crawl without a budget has returned, url_queue is empty and every
\* in-scope URL of a page, a script or a stylesheet that is reachable from the
\* seed through the links of successfully fetched pages is in visited_urls.
C16_Complete ==
    (pc = "done" /\ max_pages = None) =>
        /\ url_queue = <<>>
        /\ ReachableThroughSaved({base_url}) \subseteq visited_urls

\* a crawl without a budget that returned after a page could not be fetched,
\* so that a URL linked from that page alone was never discovered
C16_Witness ==
    /\ pc = "done"
    /\ max_pages = None
    /\ main_pc = "crawl"
    /\ \E i \in 1..Len(fetched) : fetched[i].result = "fetch_error"
    /\ Cardinality(visited_urls) >= 4
    /\ \E u \in visited_urls : FileType(u) # "html"
    /\ Reachable \ visited_urls # {}

\* the stage named e was started
Started(e) == e \in Range(log)

\* C17: the crawl stage comes first and the other stages only after the
\* crawler is closed; with only_html neither data extraction nor media
\* download is started; a stage is never started when its skip flag is set,
\* and when main has passed the place of a stage without only_html, the stage
\* was started exactly when its skip flag is absent; data extraction comes
\* before media download.
C17_StageGating ==
    /\ log # <<>> => Head(log) \in {"crawl", "crawler_init_error"}
    /\ \A i \in 1..Len(log) :
          log[i] \in {"data", "media"}
             => Head(log) = "crawl" /\ \E j \in 1..(i - 1) : log[j] = "close"
    /\ args.only_html => ~Started("data") /\ ~Started("media")
    /\ args.skip_data => ~Started("data")
    /\ args.skip_media => ~Started("media")
    /\ (main_pc \in {"after_data", "done"} /\ ~args.only_html)
          => (Started("data") <=> ~args.skip_data)
    /\ (main_pc = "done" /\ ~args.only_html)
          => (Started("media") <=> ~args.skip_media)
    /\ \A i, j \in 1..Len(log) : (log[i] = "data" /\ log[j] = "media") => i < j
    /\ \A e \in {"crawl", "data", "media"} : Occurrences(log, e) <= 1

\* main returned after the three stages ran in order, and after a run in
\* which data extraction was skipped and media download was not
C17_Witness ==
    /\ main_pc = "done"
    /\ ~args.only_html
    /\ \/ /\ ~args.skip_data
          /\ ~args.skip_media
          /\ SelectSeq(log, LAMBDA e : e \in {"crawl", "data", "media"})
                = <<"crawl", "data", "media">>
       \/ /\ args.skip_data
          /\ ~args.skip_media
          /\ SelectSeq(log, LAMBDA e : e \in {"crawl", "data", "media"})
                = <<"crawl", "media">>

\* C18: a failed fetch or an exception of crawl never ends main: the error of
\* crawl is logged, the crawler is closed exactly once, right after the crawl
\* stage, and main goes on to the stages its flags select and returns; main
\* is left by an exception only when a constructor raises.
C18_CrawlFailureContained ==
    /\ Occurrences(log, "close") =
          (IF main_pc \in {"start", "crawl"} \/ Head(log) = "crawler_init_error" THEN 0 ELSE 1)
    /\ (main_pc \notin {"start", "crawl"} /\ pc = "raised")
          => \E i \in 1..(Len(log) - 1) : log[i] = "crawl_error" /\ log[i + 1] = "close"
    /\ pc # "raised" => ~Started("crawl_error")
    /\ \A i \in 1..Len(log) : log[i] = "close" => log[i - 1] \in {"crawl", "crawl_error"}
    /\ main_pc = "aborted"
          => log[Len(log)] \in {"crawler_init_error", "extractor_init_error"}
    /\ (main_pc = "done" /\ (pc = "raised" \/ \E i \in 1..Len(fetched) : fetched[i].result # "ok"))
          => /\ log[Len(log)] = "completed"
             /\ Started("data") <=> (~args.only_html /\ ~args.skip_data)
             /\ Started("media") <=> (~args.only_html /\ ~args.skip_media)

\* main returned after crawl raised and both later stages ran
C18_Witness ==
    /\ main_pc = "done"
    /\ pc = "raised"
    /\ \E i \in 1..Len(fetched) : fetched[i].result = "fetch_error"
    /\ Occurrences(log, "close") = 1
    /\ Started("data")
    /\ Started("media")

\* C19: crawl ends, by returning or by an exception, and when it has ended
\* the calls of download_file, whose number never decreases, were made for
\* pairwise distinct in-scope URLs: there are at most as many as the site has
\* distinct in-scope URLs.
C19_Terminates ==
    <>(/\ pc \in {"done", "raised"}
       /\ Len(fetched) = Cardinality(Range(FetchedUrls))
       /\ \A u \in Range(FetchedUrls) : Host(u) = domain)

\* a crawl without a budget that returned after it fetched every in-scope URL
\* of a site of five URLs or more, one of them without success
C19_Witness ==
    /\ pc = "done"
    /\ max_pages = None
    /\ main_pc = "crawl"
    /\ url_queue = <<>>
    /\ Len(fetched) = Cardinality(Reachable)
    /\ Len(fetched) >= 5
    /\ \E i \in 1..Len(fetched) : fetched[i].result # "ok"

\* C20: visited_urls never loses a URL, and a step of crawl inserts a URL
\* exactly when it starts a download: the URL is the one just dequeued, it was
\* not in visited_urls, and it is inserted whatever the download's outcome.
\* Appending links to url_queue inserts nothing. Hence after every step
\* visited_urls is the set of URLs a download was attempted for, and the URL
\* of a failed download is not downloaded again.
C20_VisitedDiscipline ==
    [][ /\ visited_urls \subseteq visited_urls'
        /\ IF fetched' # fetched
           THEN /\ url_queue # <<>>
                /\ fetched' = Append(fetched, fetched'[Len(fetched')])
                /\ fetched'[Len(fetched')].url = Head(url_queue)
                /\ Head(url_queue) \notin visited_urls
                /\ visited_urls' = visited_urls \cup {Head(url_queue)}
                /\ \A i \in 1..Len(fetched) :
                      fetched[i].result # "ok" => fetched[i].url # Head(url_queue)
           ELSE visited_urls' = visited_urls
        /\ visited_urls' = {fetched'[i].url : i \in 1..Len(fetched')}
        /\ \A i \in (Len(enqueued) + 1)..Len(enqueued') :
              enqueued'[i] \in visited_urls' => enqueued'[i] \in visited_urls ]_vars

\* a crawl without a budget that ended after the download of a URL failed and
\* the URL, queued more than once, was dequeued again and skipped
C20_Witness ==
    /\ pc = "done"
    /\ max_pages = None
    /\ url_queue = <<>>
    /\ \E i \in 1..Len(fetched) :
          /\ fetched[i].result = "fetch_error"
          /\ Occurrences(enqueued, fetched[i].url) >= 2
          /\ Occurrences(FetchedUrls, fetched[i].url) = 1
          /\ i < Len(fetched)

\* C21: a step of crawl that finds the dequeued URL in visited_urls only
\* removes it from url_queue: download_file is not called, no file is written,
\* time.sleep(1) is not called and page_count keeps its value; page_count is
\* the number of download_file calls that returned.
C21_SkipIsFree ==
    [][ /\ (pc = "loop" /\ LoopCondition /\ Head(url_queue) \in visited_urls)
              => /\ url_queue' = Tail(url_queue)
                 /\ fetched' = fetched
                 /\ files' = files
                 /\ calls' = calls
                 /\ page_count' = page_count
                 /\ visited_urls' = visited_urls
        /\ pc' # "raised" => page_count' = Len(fetched') ]_vars

\* a crawl with a budget of 3 that returned after 3 downloads and after it had
\* dequeued more than 3 entries: a visited entry was skipped on the way
C21_Witness ==
    /\ pc = "done"
    /\ max_pages = Some(3)
    /\ page_count = 3
    /\ Len(fetched) = 3
    /\ Len(enqueued) - Len(url_queue) > 3

\* the URLs a step appends to url_queue
Appended == SubSeq(enqueued', Len(enqueued) + 1, Len(enqueued'))

\* C22: a step of crawl's loop removes the front entry of url_queue and appends
\* URLs only when that entry was handled as a page (file_type "html") whose
\* download returned a path, the file being written; the step of a script, of
\* a stylesheet or of a failed download appends nothing. Every URL appended
\* has the seed's host and is not in visited_urls when it is appended.
C22_QueueGrowth ==
    [][ (pc = "loop" /\ url_queue # <<>> /\ url_queue' # url_queue) =>
           /\ url_queue' = Tail(url_queue) \o Appended
           /\ Appended # <<>> =>
                 /\ fetched' = Append(fetched, [url |-> Head(url_queue), file_type |-> "html",
                                                result |-> "ok"])
                 /\ FilePath("html", Head(url_queue)) \in DOMAIN files'
                 /\ pc' = "loop"
           /\ (fetched' # fetched /\ (fetched'[Len(fetched')].file_type # "html"
                                        \/ fetched'[Len(fetched')].result # "ok"))
                 => url_queue' = Tail(url_queue)
           /\ \A i \in 1..Len(Appended) :
                 /\ Host(Appended[i]) = domain
                 /\ Appended[i] \notin visited_urls' ]_vars

\* a crawl that returned after a page's links were appended, after a script or
\* stylesheet was downloaded, and after the download of a page with links failed
C22_Witness ==
    /\ pc = "done"
    /\ Len(enqueued) > 1
    /\ \E j \in 1..Len(fetched) : fetched[j].file_type # "html" /\ fetched[j].result = "ok"
    /\ \E k \in 1..Len(fetched) :
          /\ fetched[k].file_type = "html"
          /\ fetched[k].result = "fetch_error"
          /\ Served(fetched[k].url) # <<>>

\* the path download_file writes the content of a URL to
WrittenPath(file_type, url) == "data/raw/" \o file_type \o "/" \o url_to_filename(url)

\* C23: a download_file call changes at most the file at
\* output_dir/<file_type>/<url_to_filename(url)>; it changes none when the
\* fetch failed, and after a successful fetch and write the file holds the
\* fetched content. When the write failed no links are appended, crawl goes
\* on, the URL is in visited_urls, is not appended again by this step and had
\* no failed write before.
C23_Persistence ==
    [][ fetched' # fetched =>
           \E e \in {fetched'[Len(fetched')]} :
              /\ \A f \in DOMAIN files : f \in DOMAIN files'
              /\ \A f \in DOMAIN files' :
                    f # WrittenPath(e.file_type, e.url) => (f \in DOMAIN files /\ files'[f] = files[f])
              /\ e.result = "fetch_error" => files' = files
              /\ e.result = "ok" =>
                    /\ WrittenPath(e.file_type, e.url) \in DOMAIN files'
                    /\ files'[WrittenPath(e.file_type, e.url)] = Served(e.url)
              /\ e.result = "write_error" =>
                    /\ Appended = <<>>
                    /\ url_queue' = Tail(url_queue)
                    /\ pc' = "loop"
                    /\ e.url \in visited_urls'
                    /\ \A i \in 1..Len(fetched) : fetched[i].url # e.url ]_vars

\* a crawl that returned after the write of a page with links failed, leaving
\* an empty file, and after later downloads of a page and of a script or
\* stylesheet were written
C23_Witness ==
    /\ pc = "done"
    /\ \E i, j, k \in 1..Len(fetched) :
          /\ i < j
          /\ fetched[i].result = "write_error"
          /\ fetched[i].file_type = "html"
          /\ Served(fetched[i].url) # <<>>
          /\ WrittenPath("html", fetched[i].url) \in DOMAIN files
          /\ files[WrittenPath("html", fetched[i].url)] = <<>>
          /\ fetched[j].result = "ok" /\ fetched[j].file_type = "html"
          /\ fetched[k].result = "ok" /\ fetched[k].file_type # "html"

\* C24: no URL whose path has the extension of an image, a video or a
\* document is appended to url_queue or passed to download_file.
C24_NoMediaInGraph ==
    /\ \A i \in 1..Len(enqueued) : get_media_type(enqueued[i], None) = "other"
    /\ \A i \in 1..Len(fetched) : get_media_type(fetched[i].url, None) = "other"

\* the kind the extension of a URL's path stands for
KindOfPath(url) ==
    IF endswith(urlparse(url).path, ".js") THEN "js"
    ELSE IF endswith(urlparse(url).path, ".css") THEN "css"
    ELSE "html"

\* C25: each URL is passed to download_file with the kind its path's extension
\* stands for, whatever query string or fragment follows the path.
C25_KindByPathExtension ==
    \A i \in 1..Len(fetched) : fetched[i].file_type = KindOfPath(fetched[i].url)

\* C26: once the crawler is constructed, the setup functions called are those
\* of Chrome, Firefox and Edge in this order, as far as the first that
\* returned a driver; that driver is the one used; no setup is called after a
\* driver was returned, and after a setup that returned None or raised the
\* next one is called, if there is one.
C26_FallbackChain ==
    main_pc # "start" =>
        /\ Len(tried) \in 1..3
        /\ \A i \in 1..Len(tried) : tried[i].browser = <<"chrome", "firefox", "edge">>[i]
        /\ \A i \in 1..(Len(tried) - 1) : tried[i].outcome \in {"None", "exception"}
        /\ tried[Len(tried)].outcome \in {"None", "exception"} => Len(tried) = 3
        /\ IF tried[Len(tried)].outcome = "driver"
           THEN driver = Some(tried[Len(tried)].browser)
           ELSE driver = None /\ main_pc = "aborted"

\* a crawl run with the Edge driver after the setup of Chrome raised and that
\* of Firefox returned None
C26_Witness ==
    /\ main_pc = "crawl"
    /\ pc = "done"
    /\ Len(fetched) > 0
    /\ tried = <<[browser |-> "chrome", outcome |-> "exception"],
                 [browser |-> "firefox", outcome |-> "None"],
                 [browser |-> "edge", outcome |-> "driver"]>>
    /\ driver = Some("edge")

\* C27: in the order of crawl's calls, every call of download_file but the
\* last is directly followed by a call of time.sleep(1), so a delay lies
\* between any two successive downloads; while crawl runs and when it has
\* returned, the last download is followed by the delay too, whether it
\* succeeded or failed.
C27_Politeness ==
    /\ Len(SelectSeq(calls, LAMBDA c : c = "download_file")) = Len(fetched)
    /\ \A i \in 1..(Len(calls) - 1) : calls[i] = "download_file" => calls[i + 1] = "sleep"
    /\ pc \in {"loop", "done"} =>
          /\ Len(calls) = 2 * Len(fetched)
          /\ \A i \in 1..Len(fetched) : calls[2 * i - 1] = "download_file" /\ calls[2 * i] = "sleep"

\* a crawl that returned after a failed download that was neither its first
\* nor its last
C27_Witness ==
    /\ pc = "done"
    /\ Len(calls) >= 6
    /\ \E i \in 2..(Len(fetched) - 1) :
          /\ fetched[i].result # "ok"
          /\ calls[2 * i] = "sleep"
          /\ calls[2 * i + 1] = "download_file"

\* the number of download_file calls made for a URL by all workers
Downloads(url) ==
    Cardinality(UNION {{<<w, i>> : i \in {k \in 1..Len(workers[w].fetched) :
                                           workers[w].fetched[k] = url}} :
                          w \in DOMAIN workers})

C29_StablePath ==
    ret # None =>
        /\ ret[1].fn = "url_to_filename" => ret[1].value = url_to_filename(arg_url)
        /\ ret[1].fn = "MediaDownloader.url_to_filename" =>
              \A h \in HashResidues : ret[1].value = MediaDownloader_url_to_filename(arg_url, h)

\* the calls of download_media that made a request
Requests(history) == SelectSeq(history, LAMBDA c : c.result # "skipped")

\* C30: after every step of process_html_directory, every URL requested has
\* the downloader's host; downloaded_urls holds exactly the URLs whose
\* download succeeded; no URL is requested after a request for it succeeded;
\* and a step that meets a URL of the downloader's host that is not in
\* downloaded_urls, whether or not a request for it failed before, requests it.
C30_MediaDedup ==
    [][ \E requests \in {Requests(media_calls')} :
          /\ \A i \in 1..Len(requests) : Host(requests[i].url) = urlparse(base_url).netloc
          /\ downloaded_urls' = {requests[i].url : i \in {k \in 1..Len(requests) :
                                                             requests[k].result = "ok"}}
          /\ \A i, j \in 1..Len(requests) :
                (i < j /\ requests[i].result = "ok") => requests[j].url # requests[i].url
          /\ (/\ media_urls # <<>>
              /\ Host(Head(media_urls)) = urlparse(base_url).netloc
              /\ Head(media_urls) \notin downloaded_urls)
                => /\ Len(requests) = Len(Requests(media_calls)) + 1
                   /\ requests[Len(requests)].url = Head(media_urls)
          /\ (media_urls # <<>> /\ Head(media_urls) \in downloaded_urls)
                => requests = Requests(media_calls) ]_vars

\* process_html_directory has returned after a request for a URL failed, the
\* next request for it succeeded, a later occurrence of it was skipped, and a
\* URL of another host was met
C30_Witness ==
    /\ main_pc = "done"
    /\ \E i, j, k \in 1..Len(media_calls) :
          /\ i < j /\ j < k
          /\ media_calls[i].url = media_calls[j].url
          /\ media_calls[j].url = media_calls[k].url
          /\ media_calls[i].result \in {"fetch_error", "write_error"}
          /\ media_calls[j].result = "ok"
          /\ media_calls[k].result = "skipped"

====
